---- MODULE Spec2Model ----
(***************************************************************************)
(* Model of NetcupTrafficMonitor (src/netcup_monitor.py): the throttle     *)
(* history ledger, the read-side cache and the poll cycle that reconciles  *)
(* them and drives the downloader.                                         *)
(*                                                                         *)
(* Time is counted in ticks, TicksPerSec ticks to the second, so that a    *)
(* float timestamp difference that is no whole number of seconds exists    *)
(* and int() has something to truncate.                                    *)
(***************************************************************************)
EXTENDS Integers, Sequences, FiniteSets, TLC

\* ------------------------------------------------------------- bounds ----
TicksPerSec == 2
MaxTicks == 3

\* ---------------------------------------------------- program constants --
HistoryLimit == 100
NoneTime == 0
NormalPeriod == 300
RetryDelay == 60
DefaultRetries == 2

\* ------------------------------------------------------- environment -----
IPs == {"ip1", "ip2"}
ServerName(ip) == IF ip = "ip1" THEN "host1" ELSE "host2"

VARIABLES
    throttle_history,   \* self.throttle_history: ip -> ledger entry
    cached_data,        \* self.cached_data: ip -> payload
    disk,               \* throttle_history.json: absent, corrupt or a stored ledger
    config,             \* config.json: what it enables (qb_rss,
                        \* telegram_notifier) and its rest_accounts
    pc,                 \* polling thread: "idle" (sleeping) or "loop"
    new_data,           \* update_cached_data's local new_data
    queue,              \* the items of new_data the loop has still to visit
    now,                \* datetime.now().timestamp(), in ticks
    observed,           \* ip -> the flag of its last observation a cycle handled
    step,               \* what the last step did: its calls and notifications
    failed,             \* the resources whose last change of flag ended in a
                        \* downstream call that failed
    skipped,            \* the resources observed earlier that a cycle has
                        \* missed since they were last handled
    saves,              \* the save_throttle_history calls of the cycle
    published,          \* the observation sets of the last two completed
                        \* cycles and the ledger at the last cache replacement
                        \* (the last four are history variables: they
                        \* record what happened and steer nothing)
    reader,             \* a request handler thread of the Flask application
    api                 \* a NetcupAPI client (src/netcup_api.py) and the
                        \* _make_request call it is in

vars == <<throttle_history, cached_data, disk, config, pc, new_data, queue,
          now, observed, step, failed, skipped, saves, published, reader, api>>

EmptyMap == [ip \in {} |-> TRUE]

\* ------------------------------------------------------ ledger entries ---
ThrottledEvent(ts) == [event |-> "throttled", timestamp |-> ts]

UnthrottledEvent(ts, dur) ==
    [event |-> "unthrottled", timestamp |-> ts, duration_seconds |-> dur]

\* int(x) of a float given in ticks: truncation toward zero, in seconds
IntSeconds(d) == IF d >= 0 THEN d \div TicksPerSec ELSE -((-d) \div TicksPerSec)

NewEntry(server_name, is_throttled) ==
    [server_name |-> server_name,
     current_throttled |-> is_throttled,
     last_throttle_time |-> NoneTime,
     last_unthrottle_time |-> NoneTime,
     throttle_count |-> 0,
     total_throttled_seconds |-> 0,
     history |-> <<>>]

\* a trim that keeps the oldest events
TrimNewest(h) ==
    IF Len(h) > HistoryLimit THEN SubSeq(h, 1, HistoryLimit) ELSE h

Trim(h) ==
    IF Len(h) > HistoryLimit
    THEN SubSeq(h, Len(h) - HistoryLimit + 1, Len(h))
    ELSE h

\* a rename that starts the counting anew
RenameAndReset(e, server_name) ==
    IF server_name # "" /\ e.server_name # server_name
    THEN [e EXCEPT !.server_name = server_name, !.throttle_count = 0]
    ELSE e

Rename(e, server_name) ==
    IF server_name # "" /\ e.server_name # server_name
    THEN [e EXCEPT !.server_name = server_name]
    ELSE e

\* a throttle that forgets to count
ThrottleUncounted(e, ts) ==
    [e EXCEPT !.last_throttle_time = ts,
              !.history = Append(@, ThrottledEvent(ts))]

\* a throttle that records the event under the other kind
ThrottleMislabelled(e, ts) ==
    [e EXCEPT !.last_throttle_time = ts,
              !.throttle_count = @ + 1,
              !.history = Append(@, UnthrottledEvent(ts, 0))]

Throttle(e, ts) ==
    [e EXCEPT !.last_throttle_time = ts,
              !.throttle_count = @ + 1,
              !.history = Append(@, ThrottledEvent(ts))]

\* an unthrottle that records the event and forgets the total
UnthrottleUntotalled(e, ts) ==
    LET e1 == [e EXCEPT !.last_unthrottle_time = ts]
        dur == IntSeconds(ts - e.last_throttle_time)
    IN  IF e.last_throttle_time # NoneTime
        THEN [e1 EXCEPT !.history = Append(@, UnthrottledEvent(ts, dur))]
        ELSE e1

\* an unthrottle that takes the difference of the times the wrong way round
UnthrottleBackwards(e, ts) ==
    LET e1 == [e EXCEPT !.last_unthrottle_time = ts]
        dur == IntSeconds(e.last_throttle_time - ts)
    IN  IF e.last_throttle_time # NoneTime
        THEN [e1 EXCEPT !.total_throttled_seconds = @ + dur,
                        !.history = Append(@, UnthrottledEvent(ts, dur))]
        ELSE e1

\* an unthrottle that adds the period to the total twice
UnthrottleTotalledTwice(e, ts) ==
    LET e1 == [e EXCEPT !.last_unthrottle_time = ts]
        dur == IntSeconds(ts - e.last_throttle_time)
    IN  IF e.last_throttle_time # NoneTime
        THEN [e1 EXCEPT !.total_throttled_seconds = @ + 2 * dur,
                        !.history = Append(@, UnthrottledEvent(ts, dur))]
        ELSE e1

Unthrottle(e, ts) ==
    LET e1 == [e EXCEPT !.last_unthrottle_time = ts]
        dur == IntSeconds(ts - e.last_throttle_time)
    IN  IF e.last_throttle_time # NoneTime
        THEN [e1 EXCEPT !.total_throttled_seconds = @ + dur,
                        !.history = Append(@, UnthrottledEvent(ts, dur))]
        ELSE e1

\* an update that records the transition and leaves current_throttled as it
\* was
UpdateEntryFlagless(e, is_throttled, server_name, ts) ==
    LET e0 == Rename(e, server_name)
        e1 == IF is_throttled THEN Throttle(e0, ts) ELSE Unthrottle(e0, ts)
    IN  IF e0.current_throttled # is_throttled
        THEN [e1 EXCEPT !.history = Trim(@)]
        ELSE e0

\* the entry after update_throttle_history(ip, is_throttled, server_name)
UpdateEntry(e, is_throttled, server_name, ts) ==
    LET e0 == Rename(e, server_name)
        e1 == IF is_throttled THEN Throttle(e0, ts) ELSE Unthrottle(e0, ts)
    IN  IF e0.current_throttled # is_throttled
        THEN [e1 EXCEPT !.current_throttled = is_throttled,
                        !.history = Trim(@)]
        ELSE e0

\* --------------------------------------------------------- persistence ---
NoFile == [state |-> "absent", data |-> EmptyMap]

\* a load that starts from nothing whatever the file holds
LoadNothing(d) == EmptyMap

\* load_throttle_history: the mapping when the file exists and parses
load_throttle_history(d) == IF d.state = "ok" THEN d.data ELSE EmptyMap

SaveOutcomes == {"ok", "open_fails", "write_fails"}

\* save_throttle_history: open(..., 'w') truncates the file, json.dump writes
\* it; an exception is logged and swallowed
save_throttle_history(th, d, out) ==
    CASE out = "ok"          -> [state |-> "ok", data |-> th]
      [] out = "open_fails"  -> d
      [] out = "write_fails" -> [state |-> "corrupt", data |-> EmptyMap]

\* ------------------------------------------------------- notifications ---
SendOutcomes == {"ok", "fail"}

\* the send_message calls of one update_throttle_history: one when a
\* notifier is configured and the transition is announced
Notify(telegram, kind, ip, out) ==
    IF telegram THEN <<[kind |-> kind, ip |-> ip, delivered |-> (out = "ok")]>>
    ELSE <<>>

\* an update that a failing notifier cuts short: the counters and the event
\* are written, current_throttled and the file are not
UpdateCutShortByNotifier(th, d, telegram, ip, is_throttled, server_name, ts, sendOut, saveOut) ==
    LET th0 == IF ip \in DOMAIN th THEN th
               ELSE [k \in DOMAIN th \cup {ip} |->
                        IF k = ip THEN NewEntry(server_name, is_throttled)
                        ELSE th[k]]
        e0 == th0[ip]
        changed == e0.current_throttled # is_throttled
        full == UpdateEntry(e0, is_throttled, server_name, ts)
        announced == changed /\ (is_throttled \/ e0.last_throttle_time # NoneTime)
        cut == announced /\ telegram /\ sendOut # "ok"
        th1 == [th0 EXCEPT ![ip] = IF cut
                                   THEN [full EXCEPT
                                            !.current_throttled = e0.current_throttled]
                                   ELSE full]
    IN  [th |-> th1,
         disk |-> IF changed /\ ~cut THEN save_throttle_history(th1, d, saveOut) ELSE d,
         notes |-> IF announced
                   THEN Notify(telegram,
                               IF is_throttled THEN "throttled" ELSE "unthrottled",
                               ip, sendOut)
                   ELSE <<>>]

\* update_throttle_history(ip, is_throttled, server_name) at time ts: the
\* ledger, the file and the notifications after it
update_throttle_history(th, d, telegram, ip, is_throttled, server_name, ts, sendOut, saveOut) ==
    LET th0 == IF ip \in DOMAIN th THEN th
               ELSE [k \in DOMAIN th \cup {ip} |->
                        IF k = ip THEN NewEntry(server_name, is_throttled)
                        ELSE th[k]]
        e0 == th0[ip]
        changed == e0.current_throttled # is_throttled
        th1 == [th0 EXCEPT ![ip] = UpdateEntry(e0, is_throttled, server_name, ts)]
        announced == changed /\ (is_throttled \/ e0.last_throttle_time # NoneTime)
    IN  [th |-> th1,
         disk |-> IF changed THEN save_throttle_history(th1, d, saveOut) ELSE d,
         notes |-> IF announced
                   THEN Notify(telegram,
                               IF is_throttled THEN "throttled" ELSE "unthrottled",
                               ip, sendOut)
                   ELSE <<>>]

\* ---------------------------------------------------------- downloader ---
\* qb_rss.get_user_info(ip): connection info, (None, None, None), or an
\* exception of the HTTP call behind it
UserInfoOutcomes == {"info", "none", "raise"}
VertexOutcomes == {"ok", "error"}
QbOutcomes == {"ok", "error"}

\* enable_downloader(ip): the Vertex call, then get_user_info and the resume
\* of the torrents, each in its own try/except
enable_downloader(qb_rss, ip, vertexOut, infoOut, qbOut) ==
    [op |-> "enable", ip |-> ip,
     result |-> IF ~qb_rss THEN "noop"
                ELSE IF vertexOut = "ok" /\ infoOut = "info" /\ qbOut = "ok"
                     THEN "ok" ELSE "failed"]

\* disable_downloader(ip, url, username, password): the Vertex call, then the
\* pause of the torrents with the given connection info or, without it, with
\* the info of a second get_user_info
disable_downloader(qb_rss, ip, given, vertexOut, infoOut, qbOut) ==
    [op |-> "disable", ip |-> ip,
     result |-> IF ~qb_rss THEN "noop"
                ELSE IF vertexOut = "ok" /\ (given = "info" \/ infoOut = "info")
                        /\ qbOut = "ok"
                     THEN "ok" ELSE "failed"]

\* ------------------------------------------------------------ accounts ---
AllKeys == {"account_id", "access_token", "refresh_token"}

\* rest_accounts of config.json; the second one lacks its refresh_token
Accounts ==
    <<[account_id |-> "acc1", keys |-> AllKeys],
      [account_id |-> "acc3", keys |-> {"account_id", "access_token"}],
      [account_id |-> "acc2", keys |-> AllKeys]>>

\* rest_accounts in which the second account lists the server of the first
\* one as well
SharedAccounts ==
    <<[account_id |-> "acc1", keys |-> AllKeys],
      [account_id |-> "acc3", keys |-> AllKeys]>>

\* the servers the provider lists for an account
Servers(a) ==
    CASE a = "acc1" -> {"ip1"}
      [] a = "acc2" -> {"ip2"}
      [] OTHER      -> {"ip1", "ip2"}

Orders(S) ==
    {s \in [1..Cardinality(S) -> S] : \A i, j \in 1..Cardinality(S) :
                                          i # j => s[i] # s[j]}

EmptyDict == [keys |-> <<>>, val |-> EmptyMap]

\* get_server_info_from_account: a payload for every listed server whose IP
\* and throttle flag could be read, in the order of the list; a server whose
\* data is unobtainable is skipped, a failing account yields {}
get_server_info_from_account(a) ==
    UNION {{[keys |-> o,
             val |-> [ip \in S |-> [trafficThrottled |-> f[ip],
                                    account_id |-> a,
                                    server_name |-> ServerName(ip)]]] :
               o \in Orders(S), f \in [S -> BOOLEAN]} :
           S \in SUBSET Servers(a)}

\* a merge in which the first observation of a key stays
DictKeepFirst(d, add) ==
    [keys |-> d.keys \o SelectSeq(add.keys, LAMBDA k : k \notin DOMAIN d.val),
     val |-> [k \in DOMAIN d.val \cup DOMAIN add.val |->
                IF k \in DOMAIN d.val THEN d.val[k] ELSE add.val[k]]]

\* dict.update: a known key keeps its place and takes the new value, a new
\* key goes to the end
DictUpdate(d, add) ==
    [keys |-> d.keys \o SelectSeq(add.keys, LAMBDA k : k \notin DOMAIN d.val),
     val |-> [k \in DOMAIN d.val \cup DOMAIN add.val |->
                IF k \in DOMAIN add.val THEN add.val[k] ELSE d.val[k]]]

\* a test that is content with an account_id
HasAccountId(account) == "account_id" \in account.keys

HasCredentials(account) == AllKeys \subseteq account.keys

\* what the accounts return in one cycle: an account without complete
\* credentials is not queried
RECURSIVE AccountData(_)
AccountData(i) ==
    IF i > Len(config.accounts) THEN {<<>>}
    ELSE {<<g>> \o rest :
            g \in (IF HasCredentials(config.accounts[i])
                   THEN get_server_info_from_account(config.accounts[i].account_id)
                   ELSE {EmptyDict}),
            rest \in AccountData(i + 1)}

\* the loop over self.accounts, given what each queried account returned
RECURSIVE Collect(_, _, _)
Collect(i, got, acc) ==
    IF i > Len(config.accounts) THEN acc
    ELSE IF ~HasCredentials(config.accounts[i]) THEN Collect(i + 1, got, acc)
    ELSE Collect(i + 1, got, DictUpdate(acc, got[i]))

\* --------------------------------------------------------- initial state -
\* a ledger the monitor wrote in an earlier run: ip1 changed state once a
\* second, HistoryLimit - 1 times, starting unthrottled
SeedLen == HistoryLimit - 1

SeedHistory ==
    [k \in 1..SeedLen |->
        IF k % 2 = 1 THEN ThrottledEvent(TicksPerSec * k)
        ELSE UnthrottledEvent(TicksPerSec * k, 1)]

SeedEntry ==
    [server_name |-> ServerName("ip1"),
     current_throttled |-> (SeedLen % 2 = 1),
     last_throttle_time |-> TicksPerSec * (SeedLen - ((SeedLen + 1) % 2)),
     last_unthrottle_time |-> TicksPerSec * (SeedLen - (SeedLen % 2)),
     throttle_count |-> (SeedLen + 1) \div 2,
     total_throttled_seconds |-> SeedLen \div 2,
     history |-> SeedHistory]

SeedFile == [state |-> "ok", data |-> [ip \in {"ip1"} |-> SeedEntry]]

StartTime == TicksPerSec * (SeedLen + 1)

\* no save yet in this cycle; before: a save of the cycle before failed
NoSaves == [this |-> <<>>, before |-> FALSE]

\* no cycle has completed yet: the cache is the empty map of __init__
Unpublished(th) == [sets |-> <<EmptyMap, EmptyMap>>, ledger |-> th]

\* no request is being handled
NoRequest == [pc |-> "idle", ip |-> "", view |-> EmptyMap, todo |-> <<>>, out |-> <<>>]

Idle == [kind |-> "start", ip |-> "", flag |-> FALSE, calls |-> <<>>, notes |-> <<>>]

Did(kind) == [Idle EXCEPT !.kind = kind]

\* a client that is in no request
NoCall ==
    [pc |-> "idle", max_retries |-> DefaultRetries, attempt |-> 0, expired |-> FALSE, sent |-> 0, refreshes |-> 0, received |-> "", refreshed |-> "", result |-> ""]

\* __init__ with history file d and one of the configurations cs: the cache
\* is empty, the ledger is what load_throttle_history reads, the polling
\* thread is about to run its first cycle
Start(d, cs) ==
    /\ disk = d
    /\ throttle_history = load_throttle_history(d)
    /\ cached_data = EmptyMap
    /\ config \in cs
    /\ pc = "idle"
    /\ new_data = EmptyDict
    /\ queue = <<>>
    /\ now = StartTime
    /\ observed = EmptyMap
    /\ step = Idle
    /\ failed = {}
    /\ skipped = {}
    /\ saves = NoSaves
    /\ published = Unpublished(load_throttle_history(d))
    /\ reader = NoRequest
    /\ api = NoCall

\* a first start, without a history file, under any configuration
Init == Start(NoFile, [qb_rss : BOOLEAN, telegram : BOOLEAN, accounts : {Accounts}])

\* a start on the history file of an earlier run, with Vertex and Telegram
\* configured
InitSeeded == Start(SeedFile, {[qb_rss |-> TRUE, telegram |-> TRUE, accounts |-> Accounts]})

\* ----------------------------------------------------------- poll cycle --
\* update_cached_data up to the loop over new_data, after the sleep of
\* data_collection_loop: every account with complete credentials is queried
\* and its servers are merged into new_data. The clock has moved on by a
\* tick since the cycle before; a cycle that changes nothing stands for any
\* longer wait
\* the seconds data_collection_loop has slept before a cycle, given how the
\* step before ended: nothing before the first cycle, time.sleep(300) before
\* every other one. The time.sleep(RetryDelay) of the loop's except branch
\* is never reached from a cycle, because update_cached_data catches its
\* own exceptions and returns
SleepBefore(after) ==
    IF after \in {"start", "restart"} THEN 0 ELSE NormalPeriod

\* a cycle set off by a timer of its own, whatever the polling thread is
\* doing
CollectOnTimer ==
    /\ now < StartTime + MaxTicks
    /\ now' = now + 1
    /\ \E got \in AccountData(1) :
          /\ new_data' = Collect(1, got, EmptyDict)
          /\ queue' = new_data'.keys
          /\ step' = [kind |-> "collect", ip |-> "", flag |-> FALSE,
                      calls |-> <<>>, notes |-> <<>>, returned |-> got,
                      after |-> step.kind, waited |-> SleepBefore(step.kind)]
    /\ pc' = "loop"
    /\ UNCHANGED <<throttle_history, cached_data, disk, config, observed>>

CollectNewData ==
    /\ pc = "idle"
    /\ now < StartTime + MaxTicks
    /\ now' = now + 1
    /\ \E got \in AccountData(1) :
          /\ new_data' = Collect(1, got, EmptyDict)
          /\ queue' = new_data'.keys
          /\ step' = [kind |-> "collect", ip |-> "", flag |-> FALSE,
                      calls |-> <<>>, notes |-> <<>>, returned |-> got,
                      after |-> step.kind, waited |-> SleepBefore(step.kind)]
    /\ pc' = "loop"
    /\ UNCHANGED <<throttle_history, cached_data, disk, config, observed>>

\* a polling thread that an exception in a cycle ends
ThreadEnds == "dead"

\* where the polling thread is after an exception in update_cached_data:
\* the handler around the cycle logs it and the loop sleeps again
AfterException == "idle"

\* a loop that leaves a newly found resource's downloader alone
CallsOnChangeOnly(cached, old_throttled, new_throttled, call_enable, call_disable) ==
    IF cached /\ old_throttled # new_throttled
    THEN IF new_throttled THEN <<call_disable>> ELSE <<call_enable>>
    ELSE <<>>

\* a loop that makes its downstream call twice
CallsRepeated(cached, old_throttled, new_throttled, call_enable, call_disable) ==
    IF ~cached \/ old_throttled # new_throttled
    THEN IF new_throttled THEN <<call_disable, call_disable>>
         ELSE <<call_enable, call_enable>>
    ELSE <<>>

\* the downstream call of one loop iteration: none when the cached flag
\* equals the new one
DownstreamCalls(cached, old_throttled, new_throttled, call_enable, call_disable) ==
    IF ~cached
    THEN IF new_throttled THEN <<call_disable>> ELSE <<call_enable>>
    ELSE IF old_throttled # new_throttled
         THEN IF new_throttled THEN <<call_disable>> ELSE <<call_enable>>
         ELSE <<>>

\* the outcomes of a call that is made; one outcome stands for a call that
\* is not made
Relevant(made, outcomes) == IF made THEN outcomes ELSE {"ok"}

\* a handler that stores what the cycle had collected
CacheOnExceptionPartial(cache, new) ==
    [k \in DOMAIN cache \cup DOMAIN new |-> IF k \in DOMAIN new THEN new[k] ELSE cache[k]]

\* the cache after the handler around the cycle has logged the exception:
\* the assignment after the loop was not reached
CacheOnException(cache, new) == cache

\* one iteration of the loop over new_data.items()
ProcessResource ==
    /\ pc = "loop"
    /\ queue # <<>>
    /\ LET ip == Head(queue)
           payload == new_data.val[ip]
           new_throttled == payload.trafficThrottled
           cached == ip \in DOMAIN cached_data
           old_throttled == IF cached THEN cached_data[ip].trafficThrottled
                            ELSE FALSE
           calls == ~cached \/ old_throttled # new_throttled
           changes == /\ calls
                      /\ ip \in DOMAIN throttle_history
                      /\ throttle_history[ip].current_throttled # new_throttled
       IN  \E given \in (IF config.qb_rss THEN UserInfoOutcomes ELSE {"none"}) :
             IF given = "raise"
             THEN \* the exception leaves the loop: logged by the handler
                  \* around the whole cycle, the cache is not replaced
                  /\ pc' = AfterException
                  /\ queue' = <<>>
                  /\ new_data' = EmptyDict
                  /\ step' = [Did("abort") EXCEPT !.ip = ip, !.flag = new_throttled]
                  /\ cached_data' = CacheOnException(cached_data, new_data.val)
                  /\ UNCHANGED <<throttle_history, disk, observed>>
             ELSE \E sendOut \in Relevant(changes, SendOutcomes),
                     saveOut \in Relevant(changes, SaveOutcomes),
                     vertexOut \in Relevant(calls, VertexOutcomes),
                     infoOut \in Relevant(calls, UserInfoOutcomes),
                     qbOut \in Relevant(calls, QbOutcomes) :
                    LET upd == IF calls
                               THEN update_throttle_history(
                                        throttle_history, disk, config.telegram,
                                        ip, new_throttled, payload.server_name,
                                        now, sendOut, saveOut)
                               ELSE [th |-> throttle_history, disk |-> disk,
                                     notes |-> <<>>]
                        made == DownstreamCalls(
                                    cached, old_throttled, new_throttled,
                                    enable_downloader(config.qb_rss, ip,
                                        vertexOut, infoOut, qbOut),
                                    disable_downloader(config.qb_rss, ip,
                                        given, vertexOut, infoOut, qbOut))
                    IN  /\ throttle_history' = upd.th
                        /\ disk' = upd.disk
                        /\ step' = [kind |-> "process", ip |-> ip,
                                    flag |-> new_throttled,
                                    calls |-> made,
                                    notes |-> upd.notes,
                                    saved |-> IF changes THEN <<saveOut>>
                                              ELSE <<>>]
                        /\ observed' = [k \in DOMAIN observed \cup {ip} |->
                                          IF k = ip THEN new_throttled
                                          ELSE observed[k]]
                        /\ queue' = Tail(queue)
                        /\ UNCHANGED <<pc, new_data, cached_data>>
    /\ UNCHANGED <<config, now>>

\* a cache brought up to date entry by entry in the dictionary the handlers
\* read, instead of being replaced
ReplaceCacheInPlace ==
    /\ pc = "loop"
    /\ queue = <<>>
    /\ LET stale == {ip \in DOMAIN cached_data \cup DOMAIN new_data.val :
                        \/ ip \notin DOMAIN cached_data
                        \/ ip \notin DOMAIN new_data.val
                        \/ cached_data[ip] # new_data.val[ip]}
       IN  IF stale = {}
           THEN /\ pc' = "idle"
                /\ new_data' = EmptyDict
                /\ step' = Did("replace")
                /\ UNCHANGED cached_data
           ELSE /\ \E ip \in stale :
                      cached_data' =
                          [k \in (DOMAIN cached_data \ {ip})
                                   \cup ({ip} \cap DOMAIN new_data.val) |->
                              IF k = ip THEN new_data.val[k] ELSE cached_data[k]]
                /\ step' = Did("copy")
                /\ UNCHANGED <<pc, new_data>>
    /\ UNCHANGED <<throttle_history, disk, config, queue, now, observed>>

\* a replacement that also drops the ledger entries of the resources the
\* cycle did not report
ReplaceCacheAndPrune ==
    /\ pc = "loop"
    /\ queue = <<>>
    /\ cached_data' = new_data.val
    /\ throttle_history' =
          [ip \in DOMAIN throttle_history \cap DOMAIN new_data.val |->
              throttle_history[ip]]
    /\ pc' = "idle"
    /\ new_data' = EmptyDict
    /\ step' = Did("replace")
    /\ UNCHANGED <<disk, config, queue, now, observed>>

\* self.cached_data = new_data, after the loop
ReplaceCache ==
    /\ pc = "loop"
    /\ queue = <<>>
    /\ cached_data' = new_data.val
    /\ pc' = "idle"
    /\ new_data' = EmptyDict
    /\ step' = Did("replace")
    /\ UNCHANGED <<throttle_history, disk, config, queue, now, observed>>

\* a start that finds the cache of the process before
RestartKeepingCache ==
    /\ throttle_history' = load_throttle_history(disk)
    /\ cached_data' = cached_data
    /\ pc' = "idle"
    /\ new_data' = EmptyDict
    /\ queue' = <<>>
    /\ observed' = EmptyMap
    /\ step' = Did("restart")
    /\ UNCHANGED <<disk, config, now>>

\* the process is stopped and started again: __init__ runs
Restart ==
    /\ throttle_history' = load_throttle_history(disk)
    /\ cached_data' = EmptyMap
    /\ pc' = "idle"
    /\ new_data' = EmptyDict
    /\ queue' = <<>>
    /\ observed' = EmptyMap
    /\ step' = Did("restart")
    /\ UNCHANGED <<disk, config, now>>

\* ------------------------------------------------------- HTTP handlers --
\* format_hours of calculate_availability: hours with one decimal from an
\* hour on, whole minutes below, rounded as the format does (a half goes to
\* the even neighbour)
RoundDiv(n, d) ==
    LET q == n \div d
        r == n % d
    IN  IF 2 * r < d THEN q
        ELSE IF 2 * r > d THEN q + 1
        ELSE IF q % 2 = 0 THEN q ELSE q + 1

format_hours(seconds) ==
    IF seconds >= 3600
    THEN [unit |-> "hours", tenths |-> RoundDiv(seconds, 360)]
    ELSE [unit |-> "minutes", tenths |-> 10 * RoundDiv(seconds, 60)]

\* the "0秒" given for a server the ledger does not know
ZeroSeconds == [unit |-> "seconds", tenths |-> 0]

\* strftime('%Y-%m-%d %H:%M:%S') of a timestamp: its whole second, None for
\* a time that is not set
FormatTime(ts) == IF ts # NoneTime THEN IntSeconds(ts) ELSE NoneTime

\* calculate_availability(ip) on ledger th at time t
calculate_availability(th, ip, t) ==
    IF ip \notin DOMAIN th
    THEN [throttle_count |-> 0,
          total_throttled_time |-> ZeroSeconds,
          last_throttle_time |-> NoneTime,
          last_unthrottle_time |-> NoneTime,
          current_throttle_duration |-> ZeroSeconds,
          history |-> <<>>]
    ELSE LET e == th[ip]
             current == IF e.current_throttled /\ e.last_throttle_time # NoneTime
                        THEN IntSeconds(t - e.last_throttle_time)
                        ELSE 0
         IN  [throttle_count |-> e.throttle_count,
              total_throttled_time |-> format_hours(e.total_throttled_seconds),
              last_throttle_time |-> FormatTime(e.last_throttle_time),
              last_unthrottle_time |-> FormatTime(e.last_unthrottle_time),
              current_throttle_duration |-> format_hours(IF current > 0 THEN current ELSE 0),
              history |-> e.history]

\* the keys of a cache in the order the cycle inserted them
ItemsOrder(cache) == SelectSeq(<<"ip1", "ip2">>, LAMBDA k : k \in DOMAIN cache)

Monitor ==
    <<throttle_history, cached_data, disk, config, pc, new_data, queue, now,
      observed, step, failed, skipped, saves, published>>

\* api_status reads self.cached_data once and starts to walk its items
StatusStart ==
    /\ reader.pc = "idle"
    /\ reader' = [pc |-> "status", ip |-> "", view |-> cached_data,
                  todo |-> ItemsOrder(cached_data), out |-> <<>>]
    /\ UNCHANGED <<Monitor, api>>

\* a walk that writes the availability into the cached payload instead of
\* into a copy of it
StatusItemInPlace ==
    /\ reader.pc = "status"
    /\ reader.todo # <<>>
    /\ LET ip == Head(reader.todo)
           availability == calculate_availability(throttle_history, ip, now)
       IN  /\ reader' = [reader EXCEPT
                            !.todo = Tail(@),
                            !.out = Append(@, [ip |-> ip,
                                               data |-> reader.view[ip],
                                               availability |-> availability])]
           /\ cached_data' =
                 IF cached_data = reader.view
                 THEN [cached_data EXCEPT
                          ![ip] = @ @@ [throttle_count |-> availability.throttle_count]]
                 ELSE cached_data
    /\ UNCHANGED <<throttle_history, disk, config, pc, new_data, queue, now,
                   observed, step, failed, skipped, saves, published, api>>

\* one item of the walk: the cached payload with the availability computed
\* from self.throttle_history as it is now
StatusItem ==
    /\ reader.pc = "status"
    /\ reader.todo # <<>>
    /\ LET ip == Head(reader.todo)
       IN  reader' = [reader EXCEPT
                         !.todo = Tail(@),
                         !.out = Append(@, [ip |-> ip,
                                            data |-> reader.view[ip],
                                            availability |->
                                                calculate_availability(
                                                    throttle_history, ip, now)])]
    /\ UNCHANGED <<Monitor, api>>

\* webhook: a request without the parameter is answered 400 before the cache
\* is read
WebhookRefuse ==
    /\ reader.pc = "idle"
    /\ reader' = [NoRequest EXCEPT !.pc = "done", !.out = <<[code |-> 400]>>]
    /\ UNCHANGED <<Monitor, api>>

\* webhook: the test 'ipv4_ip in self.cached_data', answered 404 at once
\* when it fails
WebhookTest ==
    /\ reader.pc = "idle"
    /\ \E ip \in IPs :
          reader' = [pc |-> IF ip \in DOMAIN cached_data THEN "webhook" ELSE "done",
                     ip |-> ip, view |-> cached_data, todo |-> <<>>,
                     out |-> IF ip \in DOMAIN cached_data THEN <<>>
                             ELSE <<[code |-> 404]>>]
    /\ UNCHANGED <<Monitor, api>>

\* webhook: self.cached_data[ipv4_ip], a second read of the attribute; a
\* KeyError is answered 500 by the handler's except
WebhookFetch ==
    /\ reader.pc = "webhook"
    /\ reader' = [reader EXCEPT
                     !.pc = "done",
                     !.view = cached_data,
                     !.out = IF reader.ip \in DOMAIN cached_data
                             THEN <<[code |-> 200, data |-> cached_data[reader.ip]]>>
                             ELSE <<[code |-> 500]>>]
    /\ UNCHANGED <<Monitor, api>>

\* health: the number of servers in the cache
Health ==
    /\ reader.pc = "idle"
    /\ reader' = [NoRequest EXCEPT
                     !.pc = "health",
                     !.view = cached_data,
                     !.out = <<[code |-> 200,
                                total_servers |-> Cardinality(DOMAIN cached_data)]>>]
    /\ UNCHANGED <<Monitor, api>>

\* the response is sent and the handler is free again
Respond ==
    /\ \/ reader.pc \in {"done", "health"}
       \/ reader.pc = "status" /\ reader.todo = <<>>
    /\ reader' = NoRequest
    /\ UNCHANGED <<Monitor, api>>

\* the monitor's steps as the handlers meet them: a restart ends the request
Unserved ==
    /\ reader' = IF step'.kind = "restart" THEN NoRequest ELSE reader
    /\ UNCHANGED api

\* the observation sets of the completed cycles and the ledger at the
\* replacement of the cache
Publish ==
    published' =
        CASE step'.kind = "replace" ->
                [sets |-> <<published.sets[2], new_data.val>>,
                 ledger |-> throttle_history']
          [] step'.kind = "restart" -> Unpublished(throttle_history')
          [] OTHER -> published

\* the history variables are left alone
Untracked == UNCHANGED <<failed, skipped, saves>>

\* the history variables follow the step just taken: a restart forgets them
Track ==
    LET ip == step'.ip
        flag == step'.flag
        transition == /\ ip \in DOMAIN throttle_history
                      /\ throttle_history[ip].current_throttled # flag
    IN  CASE step'.kind = "restart" ->
                /\ failed' = {}
                /\ skipped' = {}
                /\ saves' = NoSaves
          [] step'.kind = "collect" ->
                /\ failed' = failed
                /\ skipped' = skipped \cup (DOMAIN observed \ DOMAIN new_data'.val)
                /\ saves' = [this |-> <<>>,
                             before |-> \E k \in 1..Len(saves.this) :
                                           saves.this[k] # "ok"]
          [] step'.kind = "process" ->
                /\ failed' = IF transition /\ step'.calls # <<>>
                                 /\ step'.calls[1].result = "failed"
                              THEN failed \cup {ip}
                              ELSE IF ip \in DOMAIN observed /\ observed[ip] # flag
                                   THEN failed \ {ip}
                                   ELSE failed
                /\ skipped' = skipped \ {ip}
                /\ saves' = [saves EXCEPT !.this = @ \o step'.saved]
          [] OTHER -> Untracked

\* no request arrives
Quiet == UNCHANGED <<published, reader, api>>

Next ==
    \/ CollectNewData /\ Untracked /\ Quiet
    \/ ProcessResource /\ Untracked /\ Quiet
    \/ ReplaceCache /\ Untracked /\ Quiet
    \/ Restart /\ Untracked /\ Quiet

NextTracked ==
    \/ CollectNewData /\ Track /\ Quiet
    \/ ProcessResource /\ Track /\ Quiet
    \/ ReplaceCache /\ Track /\ Quiet
    \/ Restart /\ Track /\ Quiet

\* the polling thread and a request handler side by side
NextServed ==
    \/ CollectNewData /\ Untracked /\ Publish /\ Unserved
    \/ ProcessResource /\ Untracked /\ Publish /\ Unserved
    \/ ReplaceCache /\ Untracked /\ Publish /\ Unserved
    \/ Restart /\ Untracked /\ Publish /\ Unserved
    \/ StatusStart
    \/ StatusItem
    \/ WebhookRefuse
    \/ WebhookTest
    \/ WebhookFetch
    \/ Health
    \/ Respond

\* ------------------------------------------------ NetcupAPI requests ----
\* what the token endpoint does to a refresh: a token that lasts, a token
\* whose expires_in is within the 30 seconds is_token_expired refreshes
\* ahead, another status than 200, or an exception of the POST
RefreshOutcomes == {"fresh", "short", "refused", "raise"}

\* what requests.request does: a response with its status, a Timeout or
\* another exception
RequestOutcomes == {"200", "401", "500", "timeout", "error"}

\* refresh_access_token: TRUE with the new expiry on a 200, FALSE otherwise
refresh_access_token(a, out) ==
    IF out \in {"fresh", "short"}
    THEN [ok |-> TRUE,
          api |-> [a EXCEPT !.expired = (out = "short"), !.refreshes = @ + 1, !.refreshed = "ok"]]
    ELSE [ok |-> FALSE,
          api |-> [a EXCEPT !.refreshes = @ + 1, !.refreshed = "failed"]]

\* return r: None or a response, named by its status
Return(a, r) == [a EXCEPT !.pc = "returned", !.result = r]

\* a continue that stays in the same attempt
SameAttempt(a) ==
    [a EXCEPT !.pc = "ensure"]

\* continue: the next attempt of the for loop (the callers guard it with
\* attempt < max_retries, so the range is never exhausted by it)
NextAttempt(a) ==
    [a EXCEPT !.pc = "ensure", !.attempt = @ + 1]

\* a call of _make_request with some max_retries, the token of the client
\* being expired or not
MakeRequest ==
    /\ api.pc \in {"idle", "returned"}
    /\ \E m \in 0..DefaultRetries, e \in BOOLEAN :
          api' = [NoCall EXCEPT !.pc = "ensure", !.max_retries = m, !.expired = e]
    /\ UNCHANGED <<Monitor, reader>>

\* _ensure_valid_token at the head of an attempt: a token that is expired
\* is refreshed, and the call returns None when that fails
EnsureValidToken ==
    /\ api.pc = "ensure"
    /\ IF api.expired
       THEN \E out \in RefreshOutcomes :
               LET r == refresh_access_token(api, out)
               IN  api' = IF r.ok THEN [r.api EXCEPT !.pc = "request"]
                          ELSE Return(r.api, "None")
       ELSE api' = [api EXCEPT !.pc = "request", !.refreshed = ""]
    /\ UNCHANGED <<Monitor, reader>>

\* requests.request and what the attempt does with its outcome; the token
\* may expire while the request is under way
SendRequest ==
    /\ api.pc = "request"
    /\ \E out \in RequestOutcomes, later \in {api.expired, TRUE} :
          LET a == [api EXCEPT !.sent = @ + 1, !.received = out, !.expired = later, !.refreshed = ""]
          IN  api' = CASE out = "401" ->
                            IF a.attempt < a.max_retries
                            THEN [a EXCEPT !.pc = "unauthorized"]
                            ELSE Return(a, "None")
                       [] out \in {"timeout", "error"} ->
                            IF a.attempt < a.max_retries
                            THEN NextAttempt(a)
                            ELSE Return(a, "None")
                       [] OTHER -> Return(a, out)
    /\ UNCHANGED <<Monitor, reader>>

\* the refresh after a 401 that is not the last attempt
RefreshUnauthorized ==
    /\ api.pc = "unauthorized"
    /\ \E out \in RefreshOutcomes :
          LET r == refresh_access_token(api, out)
          IN  api' = IF r.ok THEN NextAttempt(r.api) ELSE Return(r.api, "None")
    /\ UNCHANGED <<Monitor, reader>>

\* a client making one request after the other
NextApi ==
    \/ MakeRequest
    \/ EnsureValidToken
    \/ SendRequest
    \/ RefreshUnauthorized

Spec == Init /\ [][Next]_vars

\* the polling thread is scheduled: a cycle that is due starts, a loop that
\* has begun goes on to its end
Scheduled ==
    /\ WF_vars(CollectNewData /\ Untracked /\ Quiet)
    /\ WF_vars(ProcessResource /\ Untracked /\ Quiet)
    /\ WF_vars(ReplaceCache /\ Untracked /\ Quiet)

\* a first start with Vertex configured, the one downstream whose failure
\* can end a cycle, and without Telegram
InitLive == Start(NoFile, {[qb_rss |-> TRUE, telegram |-> FALSE, accounts |-> Accounts]})

SpecLive == InitLive /\ [][Next]_vars /\ Scheduled

SpecSeeded == InitSeeded /\ [][Next]_vars

\* the first of them with the history variables kept
SpecTracked == Init /\ [][NextTracked]_vars

\* a first start without Vertex and Telegram, serving requests
InitServed == Start(NoFile, {[qb_rss |-> FALSE, telegram |-> FALSE, accounts |-> Accounts]})

\* a first start, without Vertex and Telegram, with two accounts that both
\* list ip1
InitShared == Start(NoFile, {[qb_rss |-> FALSE, telegram |-> FALSE, accounts |-> SharedAccounts]})

SpecShared == InitShared /\ [][Next]_vars

\* the requests of a client, in a monitor that has just started
SpecApi == InitServed /\ [][NextApi]_vars

\* the name ip1 had when its history was written
OldName == "host0"

\* a history file written while ip1 had another name
OldNameFile == [state |-> "ok", data |-> [ip \in {"ip1"} |-> [SeedEntry EXCEPT !.server_name = OldName]]]

\* a start on that file, without Vertex and Telegram
InitRenamed == Start(OldNameFile, {[qb_rss |-> FALSE, telegram |-> FALSE, accounts |-> Accounts]})

SpecRenamed == InitRenamed /\ [][Next]_vars

SpecServed == InitServed /\ [][NextServed]_vars

\* ================================================================ claims =
\* the step just taken handled resource ip in the loop of a poll cycle
Handled(ip) == step'.kind = "process" /\ step'.ip = ip

\* the step just taken belongs to the running process (it is no restart)
Running == step'.kind # "restart"

Known(ip) == ip \in DOMAIN throttle_history

\* C1: between poll cycles, the ledger's current_throttled of every resource
\* observed so far equals the flag of its last observation a cycle handled
C1_LedgerMatchesLastObservation ==
    pc = "idle" =>
        \A ip \in DOMAIN observed :
            /\ Known(ip)
            /\ throttle_history[ip].current_throttled = observed[ip]

\* C2: a handled observation whose flag differs from the ledger's makes
\* exactly one downstream call for that resource: disable for a change to
\* throttled, enable for a change to not throttled
C2_OneCallPerTransition ==
    [][\A ip \in IPs :
          (/\ Handled(ip)
           /\ Known(ip)
           /\ throttle_history[ip].current_throttled # step'.flag)
          => /\ Len(step'.calls) = 1
             /\ step'.calls[1].ip = ip
             /\ step'.calls[1].op = IF step'.flag THEN "disable" ELSE "enable"]_vars

\* C3: throttle_count of an entry grows by exactly 1 in a step that takes the
\* entry from not throttled to throttled, starts at 0, and no other step of
\* the running process changes it
C3_CountStepsOnThrottle ==
    [][Running =>
        \A ip \in DOMAIN throttle_history' :
            IF Known(ip)
            THEN throttle_history'[ip].throttle_count =
                    throttle_history[ip].throttle_count
                    + (IF /\ ~throttle_history[ip].current_throttled
                          /\ throttle_history'[ip].current_throttled
                       THEN 1 ELSE 0)
            ELSE throttle_history'[ip].throttle_count = 0]_vars

\* C3 witness: an entry first seen throttled, then unthrottled, has just
\* been taken to throttled again, and counts 1
C3_Witness ==
    /\ step.kind = "process"
    /\ step.flag
    /\ throttle_history[step.ip].throttle_count = 1
    /\ throttle_history[step.ip].last_throttle_time = now
    /\ throttle_history[step.ip].last_unthrottle_time # NoneTime

C5_HistoryBoundedFifo ==
    /\ [](\A ip \in DOMAIN throttle_history :
              Len(throttle_history[ip].history) <= HistoryLimit)
    /\ [][Running =>
            \A ip \in DOMAIN throttle_history' :
                Known(ip) =>
                    LET h == throttle_history[ip].history
                        h2 == throttle_history'[ip].history
                        full == Append(h, h2[Len(h2)])
                    IN  /\ throttle_history'[ip].throttle_count #
                              throttle_history[ip].throttle_count
                           => h2 # <<>> /\ h2[Len(h2)] = ThrottledEvent(now)
                        /\ \/ h2 = h
                           \/ /\ h2 # <<>>
                              /\ Len(full) <= HistoryLimit
                              /\ h2 = full
                           \/ /\ h2 # <<>>
                              /\ Len(full) > HistoryLimit
                              /\ h2 = SubSeq(full, Len(full) - HistoryLimit + 1,
                                             Len(full))]_vars

\* C5 witness: the seeded list has taken two more events, is HistoryLimit
\* long and has lost the oldest seeded event
C5_Witness ==
    /\ Known("ip1")
    /\ Len(throttle_history["ip1"].history) = HistoryLimit
    /\ throttle_history["ip1"].history[1] = SeedHistory[2]
    /\ throttle_history["ip1"].history[HistoryLimit].timestamp = now

\* C6: a handled observation of a resource without a ledger entry creates
\* the entry with the observed flag, throttle_count 0, total 0 and no event,
\* sends no notification, and calls disable_downloader when the flag is
\* true and enable_downloader when it is false
C6_FirstObservation ==
    [][\A ip \in IPs :
          (Handled(ip) /\ ~Known(ip))
          => /\ ip \in DOMAIN throttle_history'
             /\ throttle_history'[ip].current_throttled = step'.flag
             /\ throttle_history'[ip].throttle_count = 0
             /\ throttle_history'[ip].total_throttled_seconds = 0
             /\ throttle_history'[ip].history = <<>>
             /\ step'.notes = <<>>
             /\ Len(step'.calls) = 1
             /\ step'.calls[1].ip = ip
             /\ step'.calls[1].op = IF step'.flag THEN "disable" ELSE "enable"]_vars

\* C6 witness: the first cycle of a first start has just handled a throttled
\* resource: its entry is the baseline and disable_downloader was called
C6_Witness ==
    /\ now = StartTime + 1
    /\ step.kind = "process"
    /\ step.flag
    /\ throttle_history[step.ip] = NewEntry(ServerName(step.ip), TRUE)
    /\ Len(step.calls) = 1
    /\ step.calls[1].op = "disable"

\* the event a handled observation appended to the list of ip, when it did
Appended(ip) ==
    LET h == throttle_history[ip].history
        h2 == throttle_history'[ip].history
    IN  /\ h2 # <<>>
        /\ h2 = Trim(Append(h, h2[Len(h2)]))

LastEvent(ip) ==
    throttle_history'[ip].history[Len(throttle_history'[ip].history)]

\* C7: a handled observation throttled=true of a resource whose entry has
\* current_throttled=false appends one 'throttled' event, adds 1 to
\* throttle_count, sets last_throttle_time to the observation time and
\* current_throttled to true, and calls disable_downloader
C7_ThrottledTransition ==
    [][\A ip \in IPs :
          (/\ Handled(ip)
           /\ Known(ip)
           /\ ~throttle_history[ip].current_throttled
           /\ step'.flag)
          => /\ Appended(ip)
             /\ LastEvent(ip) = ThrottledEvent(now)
             /\ throttle_history'[ip].throttle_count =
                   throttle_history[ip].throttle_count + 1
             /\ throttle_history'[ip].last_throttle_time = now
             /\ throttle_history'[ip].current_throttled
             /\ Len(step'.calls) = 1
             /\ step'.calls[1].ip = ip
             /\ step'.calls[1].op = "disable"]_vars

\* C8: a handled observation throttled=false of a resource whose entry has
\* current_throttled=true appends one 'unthrottled' event with
\* duration_seconds = now - last_throttle_time, sets last_unthrottle_time
\* and current_throttled=false, and calls enable_downloader
C8_UnthrottledTransition ==
    [][\A ip \in IPs :
          (/\ Handled(ip)
           /\ Known(ip)
           /\ throttle_history[ip].current_throttled
           /\ ~step'.flag)
          => /\ Appended(ip)
             /\ LastEvent(ip).event = "unthrottled"
             /\ LastEvent(ip).timestamp = now
             /\ TicksPerSec * LastEvent(ip).duration_seconds =
                   now - throttle_history[ip].last_throttle_time
             /\ throttle_history'[ip].last_unthrottle_time = now
             /\ ~throttle_history'[ip].current_throttled
             /\ Len(step'.calls) = 1
             /\ step'.calls[1].ip = ip
             /\ step'.calls[1].op = "enable"]_vars

\* C9: a handled observation whose flag equals the entry's current_throttled
\* leaves the entry's state, counters, times and events as they are and
\* calls neither enable_downloader nor disable_downloader
C9_NoChange ==
    [][\A ip \in IPs :
          (/\ Handled(ip)
           /\ Known(ip)
           /\ throttle_history[ip].current_throttled = step'.flag)
          => /\ throttle_history'[ip].current_throttled =
                   throttle_history[ip].current_throttled
             /\ throttle_history'[ip].throttle_count =
                   throttle_history[ip].throttle_count
             /\ throttle_history'[ip].total_throttled_seconds =
                   throttle_history[ip].total_throttled_seconds
             /\ throttle_history'[ip].last_throttle_time =
                   throttle_history[ip].last_throttle_time
             /\ throttle_history'[ip].last_unthrottle_time =
                   throttle_history[ip].last_unthrottle_time
             /\ throttle_history'[ip].history = throttle_history[ip].history
             /\ step'.calls = <<>>]_vars

\* C10: when the downstream call of a transition fails, the entry still has
\* the observed flag and the transition's event, and a change to throttled
\* is still counted
C10_LedgerDespiteFailedCall ==
    [][\A ip \in IPs :
          (/\ Handled(ip)
           /\ Known(ip)
           /\ throttle_history[ip].current_throttled # step'.flag
           /\ step'.calls # <<>>
           /\ step'.calls[1].result = "failed")
          => /\ throttle_history'[ip].current_throttled = step'.flag
             /\ Appended(ip)
             /\ LastEvent(ip).timestamp = now
             /\ LastEvent(ip).event =
                   IF step'.flag THEN "throttled" ELSE "unthrottled"
             /\ step'.flag =>
                   throttle_history'[ip].throttle_count =
                      throttle_history[ip].throttle_count + 1]_vars

\* C12: a resource that is in the cache and is missing from the observations
\* of a cycle (its data could not be obtained, or no account returned any
\* server) is still in the cache, with its earlier payload, after the cycle
C12_SkippedStaysCached ==
    [][step'.kind = "replace" =>
        \A ip \in DOMAIN cached_data :
            ip \notin DOMAIN new_data.val
            => /\ ip \in DOMAIN cached_data'
               /\ cached_data'[ip] = cached_data[ip]]_vars

\* C14: a failure while one resource is handled stays in that iteration: a
\* step of a cycle in its loop handles the next resource and stays in the
\* loop, or, after the last resource, replaces the cache by the cycle's
\* observations
C14_FailuresContained ==
    [][(pc = "loop" /\ Running) =>
        IF queue # <<>>
        THEN pc' = "loop" /\ queue' = Tail(queue) /\ new_data' = new_data
        ELSE cached_data' = new_data.val]_vars

\* C20: every change of the history file is a whole replacement: after it the
\* file holds the complete ledger being saved, never part of a document
C20_SaveIsAtomic ==
    [][disk' = disk \/ disk' = [state |-> "ok", data |-> throttle_history']]_vars

\* C15: a cycle asks nothing of an account that lacks one of account_id,
\* access_token and refresh_token, so nothing of it is in new_data, while
\* every payload the other accounts return is in new_data and is handled in
\* its turn by the loop as long as the cycle is not aborted
C15_IncompleteAccountSkipped ==
    [][/\ step'.kind = "collect" =>
            \A i \in 1..Len(Accounts) :
                IF {"account_id", "access_token", "refresh_token"}
                      \subseteq Accounts[i].keys
                THEN \A ip \in DOMAIN step'.returned[i].val :
                        /\ ip \in DOMAIN new_data'.val
                        /\ \E k \in 1..Len(queue') : queue'[k] = ip
                ELSE /\ step'.returned[i] = EmptyDict
                     /\ \A ip \in DOMAIN new_data'.val :
                           new_data'.val[ip].account_id # Accounts[i].account_id
       /\ (pc = "loop" /\ queue # <<>> /\ step'.kind \notin {"abort", "restart"})
            => Handled(Head(queue))]_vars

\* C15 witness: the accounts before and after the incomplete one have both
\* been queried and the resources of both have been handled
C15_Witness ==
    /\ pc = "loop"
    /\ queue = <<>>
    /\ step.kind = "process"
    /\ "ip1" \in DOMAIN new_data.val
    /\ "ip2" \in DOMAIN new_data.val
    /\ new_data.val["ip1"].account_id = "acc1"
    /\ new_data.val["ip2"].account_id = "acc2"
    /\ DOMAIN observed = {"ip1", "ip2"}

\* the calls of the step just taken that went out to a configured downloader
Reached == SelectSeq(step'.calls, LAMBDA c : c.result # "noop")

\* C11: a resource is handled at most once in a cycle, with at most one
\* downstream call; and once the call of a transition has failed, handling
\* the same flag again makes no downstream call, appends no event and sends
\* no notification
C11_NoRetryAfterFailedCall ==
    [][\A ip \in IPs :
          Handled(ip)
          => /\ Len(step'.calls) <= 1
             /\ \A k \in 1..Len(queue') : queue'[k] # ip
             /\ (ip \in failed /\ observed[ip] = step'.flag)
                => /\ Reached = <<>>
                   /\ step'.notes = <<>>
                   /\ throttle_history'[ip].history =
                         throttle_history[ip].history]_vars

\* C13: while a cycle that missed a resource runs, the resource's entry is
\* left alone and nothing is done for it; and when it is next handled with
\* the flag it had before, its entry stays as it is, no notification is sent
\* and no downstream call is made
C13_SkipIsNoTransition ==
    [][\A ip \in IPs :
          /\ (Running /\ pc = "loop" /\ ip \in skipped
                /\ ip \notin DOMAIN new_data.val)
             => /\ step'.ip # ip
                /\ Known(ip) => /\ ip \in DOMAIN throttle_history'
                                /\ throttle_history'[ip] = throttle_history[ip]
          /\ (Handled(ip) /\ ip \in skipped /\ observed[ip] = step'.flag)
             => /\ Known(ip) => throttle_history'[ip] = throttle_history[ip]
                /\ step'.notes = <<>>
                /\ Reached = <<>>]_vars

\* the saves of the cycle all went well
StoreWorks == \A k \in 1..Len(saves.this) : saves.this[k] = "ok"

Persisted == load_throttle_history(disk)

\* C18: a cycle that has replaced the cache has saved the ledger exactly
\* once, and when the save went well the file holds the ledger in memory
C18_OneSavePerCycle ==
    step.kind = "replace"
    => /\ Len(saves.this) = 1
       /\ StoreWorks => Persisted = throttle_history

\* C19: a failed save changes nothing but the file and the cycle goes on;
\* and the cycle after one with a failed save ends, when its own saves go
\* well, with the ledger in memory in the file
C19_FailedSaveRetried ==
    /\ [][(step'.kind = "process" /\ step'.saved # <<>> /\ step'.saved[1] # "ok")
           => /\ pc' = "loop"
              /\ step'.ip \in DOMAIN throttle_history'
              /\ throttle_history'[step'.ip].current_throttled = step'.flag]_vars
    /\ []((step.kind = "replace" /\ saves.before /\ StoreWorks)
           => Persisted = throttle_history)

\* a handler reads self.cached_data in this step
ReadsCache ==
    \/ reader.pc = "idle" /\ reader'.pc # "idle" /\ reader'.out # <<[code |-> 400]>>
    \/ reader.pc = "webhook" /\ reader'.pc = "done"

\* C16: the cache changes only at the end of a cycle and then to the whole
\* observation set of that cycle (a restart empties it); every read of the
\* cache by a handler returns the whole set of the last completed cycle or
\* of the one before, the empty map before any cycle completed; and a status
\* response takes every server and its payload from the one set it read
C16_CacheReplacedAsAWhole ==
    [][/\ cached_data' # cached_data
          => \/ step'.kind = "restart" /\ cached_data' = EmptyMap
             \/ step'.kind = "replace" /\ queue = <<>> /\ cached_data' = new_data.val
       /\ ReadsCache
          => /\ reader'.view \in {published.sets[1], published.sets[2]}
             /\ reader'.view = published.sets[2]
       /\ (reader'.pc = "status" /\ reader'.todo = <<>>)
          => /\ Len(reader'.out) = Cardinality(DOMAIN reader'.view)
             /\ \A k \in 1..Len(reader'.out) :
                   /\ reader'.out[k].ip \in DOMAIN reader'.view
                   /\ reader'.out[k].data = reader'.view[reader'.out[k].ip]]_vars

\* a status request that read the cache before a cycle replaced it is still
\* walking the set of the cycle before
C16_Witness ==
    /\ reader.pc = "status"
    /\ reader.out # <<>>
    /\ reader.view # EmptyMap
    /\ reader.view # cached_data
    /\ reader.view = published.sets[1]
    /\ cached_data = published.sets[2]

\* C17: the availability statistics a status response gives for a server
\* (throttle_count, last_throttle_time, total_throttled_time, history) are
\* those of the ledger as the last completed cycle left it, also while the
\* next cycle is at work
C17_StatusOfCompletedCycle ==
    [][(reader.pc = "status" /\ Len(reader'.out) = Len(reader.out) + 1)
        => LET r == reader'.out[Len(reader'.out)]
               then == calculate_availability(published.ledger, r.ip, now)
           IN  /\ r.availability.throttle_count = then.throttle_count
               /\ r.availability.last_throttle_time = then.last_throttle_time
               /\ r.availability.total_throttled_time = then.total_throttled_time
               /\ r.availability.history = then.history]_vars

\* C21: a start takes the mapping of a history file that exists and parses
\* as its ledger, and an empty ledger when the file is absent or corrupt;
\* in each case the process is up, its cache empty and its polling thread
\* about to run
C21_LoadOrEmpty ==
    [][step'.kind = "restart"
        => /\ disk.state = "ok" => throttle_history' = disk.data
           /\ disk.state \in {"absent", "corrupt"} => throttle_history' = EmptyMap
           /\ pc' = "idle"
           /\ cached_data' = EmptyMap
           /\ disk' = disk]_vars

\* a start on a corrupt history file that came up with an empty ledger
C21_Witness ==
    /\ step.kind = "restart"
    /\ disk.state = "corrupt"
    /\ throttle_history = EmptyMap
    /\ pc = "idle"

\* C22: a step whose notification was not delivered leaves the ledger, the
\* file and the downloader as a transition leaves them: the flag follows the
\* observation, a throttling is counted, an unthrottling adds its whole
\* seconds to the total, the event is appended, the ledger is saved and the
\* one downstream call of the transition is made
C22_NotifierFailureContained ==
    [][\A ip \in IPs :
          (Handled(ip) /\ step'.notes # <<>> /\ ~step'.notes[1].delivered)
          => /\ Known(ip)
             /\ throttle_history[ip].current_throttled # step'.flag
             /\ LET e == throttle_history[ip]
                    e2 == throttle_history'[ip]
                    dur == IntSeconds(now - e.last_throttle_time)
                IN  /\ e2.current_throttled = step'.flag
                    /\ e2.throttle_count =
                          e.throttle_count + (IF step'.flag THEN 1 ELSE 0)
                    /\ e2.total_throttled_seconds =
                          e.total_throttled_seconds + (IF step'.flag THEN 0 ELSE dur)
                    /\ e2.history =
                          Trim(Append(e.history,
                                      IF step'.flag THEN ThrottledEvent(now)
                                      ELSE UnthrottledEvent(now, dur)))
             /\ Len(step'.saved) = 1
             /\ step'.saved[1] = "ok"
                => disk' = [state |-> "ok", data |-> throttle_history']
             /\ Len(step'.calls) = 1
             /\ step'.calls[1].ip = ip
             /\ step'.calls[1].op = IF step'.flag THEN "disable" ELSE "enable"
             /\ pc' = "loop"]_vars

\* an unthrottling whose notification failed, saved and followed by an
\* enable call that went through
C22_Witness ==
    /\ step.kind = "process"
    /\ ~step.flag
    /\ step.notes # <<>>
    /\ ~step.notes[1].delivered
    /\ step.saved = <<"ok">>
    /\ step.calls # <<>>
    /\ step.calls[1].result = "ok"
    /\ throttle_history[step.ip].throttle_count = 1

\* C23: a cycle that has begun comes to its end, by replacing the cache or
\* by an exception, and after it (as after a start) the next cycle begins,
\* as long as the clock of the model has a tick left
C23_NextCycleStarts ==
    /\ (pc = "loop") ~> (pc = "idle")
    /\ \A t \in StartTime..(StartTime + MaxTicks - 1) :
          (pc # "loop" /\ now = t) ~> (pc = "loop" /\ now = t + 1)

\* a cycle that began after a cycle an exception had ended
C23_Witness ==
    /\ pc = "loop"
    /\ step.kind = "collect"
    /\ step.after = "abort"

\* the webhook handler answers in this step
Answers == reader.pc # "done" /\ reader'.pc = "done"

\* C24: the webhook answers 400 to a request without the parameter, 404 to
\* an address that is no key of the cache, and otherwise 200 with the
\* observation the cache holds for that very address
C24_WebhookAnswer ==
    [][Answers
        => LET r == reader'.out[1]
               ip == reader'.ip
           IN  IF ip = "" THEN r.code = 400
               ELSE IF ip \notin DOMAIN cached_data THEN r.code = 404
               ELSE /\ r.code = 200
                    /\ r.data = cached_data[ip]
                    /\ r.data.server_name = ServerName(ip)]_vars

\* C25: total_throttled_seconds and throttle_count of every entry are never
\* negative, no step of the running process lowers them, and the total
\* changes only in the step that handles the resource and takes it from
\* throttled to not throttled
C25_CountersOnlyGrow ==
    [][/\ \A ip \in DOMAIN throttle_history' :
             /\ throttle_history'[ip].total_throttled_seconds >= 0
             /\ throttle_history'[ip].throttle_count >= 0
       /\ Running
          => \A ip \in DOMAIN throttle_history :
                /\ ip \in DOMAIN throttle_history'
                /\ throttle_history'[ip].throttle_count
                      >= throttle_history[ip].throttle_count
                /\ throttle_history'[ip].total_throttled_seconds
                      >= throttle_history[ip].total_throttled_seconds
                /\ throttle_history'[ip].total_throttled_seconds
                      # throttle_history[ip].total_throttled_seconds
                   => /\ Handled(ip)
                      /\ throttle_history[ip].current_throttled
                      /\ ~throttle_history'[ip].current_throttled]_vars

\* the entry of the earlier run has closed a throttle period of more than a
\* second and has been throttled once more
C25_Witness ==
    /\ step.kind = "process"
    /\ step.ip = "ip1"
    /\ step.flag
    /\ "ip1" \in DOMAIN throttle_history
    /\ throttle_history["ip1"].total_throttled_seconds > SeedEntry.total_throttled_seconds + 1
    /\ throttle_history["ip1"].throttle_count > SeedEntry.throttle_count

\* C26: a step of a request handler (webhook, status with its
\* calculate_availability, health) leaves the ledger and the cache as they
\* are; in the running process the ledger changes only in a step of the
\* poll cycle's loop and the cache only at its replacement
C26_ReadersMutateNothing ==
    [][/\ (reader' # reader /\ reader'.pc # "idle")
          => /\ throttle_history' = throttle_history
             /\ cached_data' = cached_data
       /\ (reader' # reader /\ reader'.pc = "idle")
          => \/ /\ throttle_history' = throttle_history
                /\ cached_data' = cached_data
             \/ /\ step'.kind = "restart"
                /\ throttle_history' = load_throttle_history(disk)
                /\ cached_data' = EmptyMap
       /\ throttle_history' # throttle_history
          => \/ step'.kind = "restart"
             \/ step'.kind = "process" /\ pc = "loop" /\ reader' = reader
       /\ cached_data' # cached_data
          => \/ step'.kind = "restart"
             \/ step'.kind = "replace" /\ pc = "loop" /\ reader' = reader]_vars

\* a status response for two servers has been built from a cache and a
\* ledger that both know them
C26_Witness ==
    /\ reader.pc = "status"
    /\ reader.todo = <<>>
    /\ Len(reader.out) = 2
    /\ reader.out[2].availability.throttle_count = 1
    /\ DOMAIN cached_data = IPs
    /\ DOMAIN throttle_history = IPs

\* C27: no step of the running process removes a key of the ledger, also
\* not a cycle that does not report the resource
C27_EntriesStay ==
    [][Running => DOMAIN throttle_history \subseteq DOMAIN throttle_history']_vars

\* a cycle has ended without a resource an earlier cycle of this process
\* entered into the ledger, and the entry is still there
C27_Witness ==
    /\ step.kind = "replace"
    /\ \E ip \in DOMAIN observed :
          /\ ip \notin DOMAIN cached_data
          /\ ip \in DOMAIN throttle_history
          /\ throttle_history[ip].throttle_count = 1

\* the status handler has computed the availability of a server in this step
Computes == reader.pc = "status" /\ Len(reader'.out) = Len(reader.out) + 1

\* C28: the availability computed for an entry that is throttled gives, as
\* current throttle duration, the time from its last_throttle_time to now
\* (in whole seconds, formatted for display), and for an entry that is not
\* throttled a duration of zero
C28_CurrentThrottleDuration ==
    [][Computes
        => LET r == reader'.out[Len(reader'.out)]
           IN  r.ip \in DOMAIN throttle_history
               => LET e == throttle_history[r.ip]
                  IN  IF e.current_throttled
                      THEN /\ e.last_throttle_time # NoneTime
                           /\ r.availability.current_throttle_duration =
                                 format_hours(IntSeconds(now - e.last_throttle_time))
                      ELSE r.availability.current_throttle_duration =
                               format_hours(0)]_vars

\* the sum of duration_seconds over the 'unthrottled' events of a list
RECURSIVE SumClosed(_)
SumClosed(h) ==
    IF h = <<>> THEN 0
    ELSE (IF Head(h).event = "unthrottled" THEN Head(h).duration_seconds ELSE 0)
         + SumClosed(Tail(h))

\* C29: total_throttled_seconds is the sum of duration_seconds of the
\* 'unthrottled' events ever appended: it is that sum at the start, a step
\* that appends an 'unthrottled' event adds that event's duration, and no
\* other step of the running process changes it, so that a period still
\* open contributes nothing
C29_TotalIsSumOfClosedPeriods ==
    /\ [](step.kind = "start"
           => \A ip \in DOMAIN throttle_history :
                 throttle_history[ip].total_throttled_seconds
                     = SumClosed(throttle_history[ip].history))
    /\ [][Running =>
           \A ip \in DOMAIN throttle_history' :
              LET e2 == throttle_history'[ip]
                  h == IF Known(ip) THEN throttle_history[ip].history ELSE <<>>
                  total == IF Known(ip)
                           THEN throttle_history[ip].total_throttled_seconds
                           ELSE 0
              IN  /\ IF e2.history # h
                     THEN /\ Handled(ip)
                          /\ e2.history = Trim(Append(h, e2.history[Len(e2.history)]))
                          /\ e2.total_throttled_seconds
                                = total + SumClosed(<<e2.history[Len(e2.history)]>>)
                     ELSE e2.total_throttled_seconds = total
                  /\ e2.current_throttled => e2.total_throttled_seconds = total]_vars

\* the entry of the earlier run has closed a period of two seconds: the
\* event is the last of the list, now full, and the total has grown by two
C29_Witness ==
    /\ step.kind = "process"
    /\ step.ip = "ip1"
    /\ ~step.flag
    /\ LET e == throttle_history["ip1"]
       IN  /\ Len(e.history) = HistoryLimit
           /\ e.history[HistoryLimit].event = "unthrottled"
           /\ e.history[HistoryLimit].duration_seconds = 2
           /\ e.total_throttled_seconds = SeedEntry.total_throttled_seconds + 2

\* the elements of a sequence differ from each other
Distinct(q) == \A i, j \in 1..Len(q) : i # j => q[i] # q[j]

\* C30: the loop of a cycle visits every resource of the observation set
\* once, one after the other: the resources to visit are those of the set,
\* each once; a step handles the first of them, takes it off for the rest
\* of the cycle, changes no other resource's entry, saves at most once and
\* makes at most one downstream call, for that resource; and nothing is put
\* back while the loop runs
C30_OncePerCycle ==
    [][/\ step'.kind = "collect"
          => /\ Distinct(queue')
             /\ {queue'[k] : k \in 1..Len(queue')} = DOMAIN new_data'.val
       /\ \A ip \in IPs :
             Handled(ip)
             => /\ queue # <<>>
                /\ ip = Head(queue)
                /\ queue' = Tail(queue)
                /\ \A k \in 1..Len(queue') : queue'[k] # ip
                /\ \A other \in DOMAIN throttle_history \ {ip} :
                      /\ other \in DOMAIN throttle_history'
                      /\ throttle_history'[other] = throttle_history[other]
                /\ DOMAIN throttle_history' \subseteq DOMAIN throttle_history \cup {ip}
                /\ Len(step'.saved) <= 1
                /\ Len(step'.calls) <= 1
                /\ \A k \in 1..Len(step'.calls) : step'.calls[k].ip = ip
       /\ (pc = "loop" /\ pc' = "loop")
          => \E n \in 0..Len(queue) : queue' = SubSeq(queue, n + 1, Len(queue))]_vars

\* a cycle has handled two resources, each with a counted throttling and a
\* disable call, and has nothing left to visit
C30_Witness ==
    /\ pc = "loop"
    /\ queue = <<>>
    /\ step.kind = "process"
    /\ step.flag
    /\ Len(step.calls) = 1
    /\ DOMAIN new_data.val = IPs
    /\ DOMAIN throttle_history = IPs
    /\ \A ip \in IPs : /\ throttle_history[ip].throttle_count = 1
                        /\ throttle_history[ip].last_throttle_time = now

\* C31: a cycle begins only when the polling thread is between cycles: the
\* cycle before has walked all its resources and replaced the cache, or an
\* exception has ended it, and nothing of it is left to do; while a cycle
\* runs, its steps are the only ones of the polling thread
C31_CyclesDoNotOverlap ==
    [][/\ step'.kind = "collect"
          => /\ pc = "idle"
             /\ queue = <<>>
             /\ new_data = EmptyDict
             /\ step.kind \in {"start", "restart", "replace", "abort"}
             /\ step'.after = step.kind
       /\ (pc = "loop" /\ Running)
          => step'.kind \in {"process", "abort", "replace"}
       /\ step'.kind = "replace" => pc = "loop" /\ queue = <<>>]_vars

\* a second cycle has begun after the first one replaced the cache with the
\* two servers it observed
C31_Witness ==
    /\ pc = "loop"
    /\ step.kind = "collect"
    /\ step.after = "replace"
    /\ DOMAIN cached_data = IPs
    /\ now = StartTime + 2

\* C32: the cycle after one that an exception ended begins after the short
\* retry delay, the cycle after one that replaced the cache after the
\* normal period
C32_RetryDelayAfterException ==
    [][step'.kind = "collect"
        => /\ step.kind = "abort" => step'.waited = RetryDelay
           /\ step.kind = "replace" => step'.waited = NormalPeriod]_vars

\* C33: in every reachable state, for every resource, flag and outcome of
\* notifier and file, a second update_throttle_history with the same
\* resource and flag right after the first leaves the ledger (and so the
\* entry and its events) and the file as the first left them and sends no
\* notification
C33_SecondUpdateIsNoChange ==
    \A ip \in IPs, flag \in BOOLEAN :
       \A s1, s2 \in SendOutcomes, v1, v2 \in SaveOutcomes :
          LET first == update_throttle_history(
                           throttle_history, disk, config.telegram, ip, flag,
                           ServerName(ip), now, s1, v1)
              second == update_throttle_history(
                            first.th, first.disk, config.telegram, ip, flag,
                            ServerName(ip), now + 1, s2, v2)
          IN  /\ second.th = first.th
              /\ second.disk = first.disk
              /\ second.notes = <<>>

\* a cycle after a restart has applied the update to a server whose loaded
\* entry already had the observed flag, counted once in an earlier cycle:
\* nothing was saved or sent and the entry still counts one throttling
C33_Witness ==
    /\ step.kind = "process"
    /\ step.flag
    /\ step.calls # <<>>
    /\ step.saved = <<>>
    /\ step.notes = <<>>
    /\ step.ip \in DOMAIN throttle_history
    /\ throttle_history[step.ip].current_throttled
    /\ throttle_history[step.ip].throttle_count = 1
    /\ throttle_history[step.ip].last_throttle_time # NoneTime
    /\ throttle_history[step.ip].last_throttle_time < now

\* the accounts that returned an observation of ip in the cycle that begins
Reporting(ip) ==
    {i \in 1..Len(config.accounts) : ip \in DOMAIN step'.returned[i].val}

Last(S) == CHOOSE i \in S : \A j \in S : j <= i

\* C34: the observation set a cycle merges holds, for a resource that one
\* or more accounts reported, the one observation of the last of these
\* accounts in the configured list, and the resource is visited once; the
\* loop detects the transition with the flag of that observation and the
\* cache takes the set as it is
C34_LaterAccountWins ==
    [][/\ step'.kind = "collect"
          => \A ip \in IPs :
                IF Reporting(ip) = {}
                THEN ip \notin DOMAIN new_data'.val
                ELSE /\ ip \in DOMAIN new_data'.val
                     /\ new_data'.val[ip] = step'.returned[Last(Reporting(ip))].val[ip]
                     /\ Cardinality({k \in 1..Len(queue') : queue'[k] = ip}) = 1
       /\ \A ip \in IPs :
             Handled(ip)
             => /\ step'.flag = new_data.val[ip].trafficThrottled
                /\ new_data' = new_data
       /\ step'.kind = "replace" => cached_data' = new_data.val]_vars

\* both accounts have reported ip1, the first as not throttled and the
\* second as throttled, and the set holds the second account's observation
C34_Witness ==
    /\ step.kind = "collect"
    /\ config.accounts = SharedAccounts
    /\ "ip1" \in DOMAIN step.returned[1].val
    /\ "ip1" \in DOMAIN step.returned[2].val
    /\ ~step.returned[1].val["ip1"].trafficThrottled
    /\ step.returned[2].val["ip1"].trafficThrottled
    /\ new_data.val["ip1"].account_id = "acc3"
    /\ new_data.val["ip1"].trafficThrottled
    /\ queue = <<"ip1">>

\* C35: an update that changes the name of an entry changes nothing else of
\* it when the flag is the entry's own, and otherwise changes what the same
\* update changes in the entry that already has the new name: the flag, the
\* counters, the two times and the event list do not depend on the rename
C35_RenameChangesOnlyName ==
    [][\A ip \in IPs :
         (/\ Handled(ip)
          /\ ip \in DOMAIN throttle_history
          /\ throttle_history'[ip].server_name # throttle_history[ip].server_name)
         => LET old == throttle_history[ip]
                named == [old EXCEPT !.server_name = ServerName(ip)]
            IN /\ step'.flag = old.current_throttled => throttle_history'[ip] = named
               /\ throttle_history'[ip] = UpdateEntry(named, step'.flag, ServerName(ip), now)]_vars

\* ip1 was handled with the flag of its entry: the entry has the new name
\* and is otherwise the one of the file, which still has the old name
C35_Witness ==
    /\ step.kind = "process"
    /\ step.ip = "ip1"
    /\ step.flag = SeedEntry.current_throttled
    /\ disk = OldNameFile
    /\ throttle_history["ip1"] = [disk.data["ip1"] EXCEPT !.server_name = ServerName("ip1")]
    /\ ServerName("ip1") # OldName

\* C36: every resource of the cache has an entry in the ledger, and each
\* item /api/status computes is computed from the entry of its resource,
\* never with the statistics of a resource without history
C36_CachedServersHaveEntries ==
    /\ [](DOMAIN cached_data \subseteq DOMAIN throttle_history)
    /\ [][Computes
           => LET r == reader'.out[Len(reader'.out)]
              IN  /\ r.ip \in DOMAIN reader.view
                  /\ r.ip \in DOMAIN throttle_history
                  /\ r.availability.total_throttled_time = format_hours(throttle_history[r.ip].total_throttled_seconds)
                  /\ r.availability.total_throttled_time # ZeroSeconds
                  /\ r.availability.current_throttle_duration # ZeroSeconds]_vars

\* /api/status has computed the item of a cached server that was never
\* throttled: its statistics are those of its entry, zero minutes, and not
\* the ones of a server without history
C36_Witness ==
    /\ reader.pc = "status"
    /\ Len(reader.out) = 1
    /\ reader.out[1].ip \in DOMAIN cached_data
    /\ throttle_history[reader.out[1].ip].throttle_count = 0
    /\ reader.out[1].availability.throttle_count = 0
    /\ reader.out[1].availability.total_throttled_time = format_hours(0)
    /\ reader.out[1].availability.history = <<>>

\* the kinds of an event list alternate
Alternates(h) == \A k \in 1..(Len(h) - 1) : h[k].event # h[k + 1].event

\* the last event of a list that has one is 'throttled' exactly when the
\* flag is set
LastMatches(e) ==
    e.history # <<>> => (e.history[Len(e.history)].event = "throttled" <=> e.current_throttled)

StartsThrottled(h) == h # <<>> => h[1].event = "throttled"

\* C37 as stated: the event list of every entry alternates between
\* 'throttled' and 'unthrottled', starts with 'throttled', and its last
\* event matches current_throttled
C37_AlternatesFromThrottled ==
    \A ip \in DOMAIN throttle_history :
        /\ Alternates(throttle_history[ip].history)
        /\ StartsThrottled(throttle_history[ip].history)
        /\ LastMatches(throttle_history[ip])

\* C37, amended: the event list of every entry alternates and its last
\* event matches current_throttled; it starts with 'throttled' as long as
\* it is shorter than the limit, that is, while no event has been dropped
C37_AlternatesWhileUntrimmed ==
    \A ip \in DOMAIN throttle_history :
        /\ Alternates(throttle_history[ip].history)
        /\ LastMatches(throttle_history[ip])
        /\ Len(throttle_history[ip].history) < HistoryLimit
              => StartsThrottled(throttle_history[ip].history)

\* the entry of the earlier run has recorded two more events: the oldest
\* event was dropped, so that the list, still alternating and ending with
\* the 'throttled' of this step, begins with an 'unthrottled'
C37_Witness ==
    /\ step.kind = "process"
    /\ step.ip = "ip1"
    /\ step.flag
    /\ LET e == throttle_history["ip1"]
       IN  /\ Len(e.history) = HistoryLimit
           /\ e.history[1] = SeedHistory[2]
           /\ e.history[1].event = "unthrottled"
           /\ e.history[HistoryLimit] = ThrottledEvent(now)
           /\ e.current_throttled

\* C38: the step at which a cycle fails changes neither the cache nor the
\* ledger nor the history file, and no step of a cycle before its end
\* changes the cache: the cache of a failed cycle is the one the cycle
\* found, and what the cycle did to the ledger before it failed stays
C38_FailedCycleKeepsCache ==
    [][/\ step'.kind = "abort"
          => /\ pc = "loop"
             /\ cached_data' = cached_data
             /\ throttle_history' = throttle_history
             /\ disk' = disk
             /\ pc' = "idle"
       /\ step'.kind \in {"collect", "process"} => cached_data' = cached_data]_vars

\* a cycle has recorded the throttling of ip1 in the ledger and failed
\* at ip2: the cache still holds ip1 as not throttled, and ip2 as it was
C38_Witness ==
    /\ step.kind = "abort"
    /\ step.ip = "ip2"
    /\ ~step.flag
    /\ DOMAIN cached_data = IPs
    /\ ~cached_data["ip1"].trafficThrottled
    /\ cached_data["ip2"].trafficThrottled
    /\ throttle_history["ip1"].current_throttled
    /\ throttle_history["ip1"].last_throttle_time = now
    /\ throttle_history["ip1"].throttle_count = 1

\* what is left of a call: the attempts still to come, and the steps of
\* the attempt it is in
Rank(a) ==
    CASE a.pc = "ensure" -> 3 * (a.max_retries - a.attempt) + 3
      [] a.pc = "request" -> 3 * (a.max_retries - a.attempt) + 2
      [] a.pc = "unauthorized" -> 3 * (a.max_retries - a.attempt) + 1
      [] OTHER -> 0

InCall == api.pc \in {"ensure", "request", "unauthorized"}

\* C39: a call of _make_request sends the request at most max_retries + 1
\* times and every step brings it nearer to its return; it returns None or
\* a response whose status is not 401; a 401 that is not the last attempt
\* is followed by a token refresh, after which the next attempt begins if
\* the refresh succeeded and None is returned if not, and a 401 of the last
\* attempt returns None; an attempt that finds the token expired and fails
\* to refresh it returns None without sending
C39_BoundedRetriesNo401 ==
    /\ [](/\ api.sent <= api.max_retries + 1
          /\ api.attempt <= api.max_retries
          /\ api.sent \in {api.attempt, api.attempt + 1}
          /\ api.pc = "returned" => api.result \in {"None", "200", "500"})
    /\ [][/\ InCall => Rank(api') < Rank(api)
          /\ (api.pc = "request" /\ api'.received = "401")
             => IF api.attempt < api.max_retries
                THEN api'.pc = "unauthorized"
                ELSE api'.pc = "returned" /\ api'.result = "None"
          /\ api.pc = "unauthorized"
             => /\ api'.refreshes = api.refreshes + 1
                /\ api'.sent = api.sent
                /\ IF api'.refreshed = "ok"
                   THEN api'.pc = "ensure" /\ api'.attempt = api.attempt + 1
                   ELSE api'.pc = "returned" /\ api'.result = "None"
          /\ (api.pc = "ensure" /\ api.expired /\ api'.refreshed = "failed")
             => /\ api'.pc = "returned"
                /\ api'.result = "None"
                /\ api'.sent = api.sent
          /\ (InCall /\ api'.sent # api.sent)
             => api.pc = "request" /\ api'.sent = api.sent + 1]_vars

\* a call with two retries has had a 401 in each of its three attempts and
\* a successful refresh after the first two: it returns None
C39_Witness ==
    /\ api.pc = "returned"
    /\ api.max_retries = DefaultRetries
    /\ api.sent = DefaultRetries + 1
    /\ api.refreshes = DefaultRetries
    /\ api.received = "401"
    /\ api.result = "None"

====
